---- MODULE Spec2Model ----
(***************************************************************************)
(* Model of src/holdem/vanillaholdem.rs: the gates VanillaHoldemChip       *)
(* registers over one row (5 card columns, num_of_pair, num_of_same_kind,  *)
(* 6 selectors, 2 instance columns), and the witness assignment            *)
(* VanillaHoldemCircuit::synthesize -> VanillaHoldemChip::assign_card.     *)
(*                                                                         *)
(* The proving backend is not part of the repository.  It appears here as  *)
(* the environment: it answers each region write with Ok or with an error  *)
(* of its own, and it evaluates the registered polynomials on a row.       *)
(***************************************************************************)
EXTENDS Integers, Sequences, FiniteSets, TLC

(* ------------------------------ bounds -------------------------------- *)

\* The field F is generic; the model computes modulo P.
P == 11
\* Card values of the enumerated hands and public inputs range over 0..MaxCard.
MaxCard == 1
\* The caller-supplied num_of_pair / num_of_same_kind range over 0..MaxCount.
MaxCount == 4
\* Number of synthesize calls made against one layouter.
MaxAttempts == 2

(* --------------------------- field arithmetic ------------------------- *)

Field == 0 .. (P - 1)

\* Expression subtraction (a - b) and product (a * b), evaluated in F.
Sub(a, b) == ((a - b) + P) % P
Mul(a, b) == (a * b) % P

\* Expression::Constant(F::one()), F::from_u128(2), F::from_u128(3),
\* F::from_u128(4)
One == 1
Two == 2
Three == 3
Four == 4

(* ------------------------------- schema ------------------------------- *)

\* The six selectors allocated by VanillaHoldemCircuit::configure.
Selectors ==
    {"q_flush", "q_straight", "q_one_pair", "q_two_pair",
     "q_three_of_a_kind", "q_four_of_a_kind"}

\* Advice columns in allocation order: the 5 card columns, then
\* num_of_pair, then num_of_same_kind.
NumCards == 5
CardIdx == 0 .. (NumCards - 1)
\* Faulty variant: the card columns taken two columns too far.
cards_Shifted == [i \in CardIdx |-> i + 2]
cards == [i \in CardIdx |-> i]
num_of_pair == 5
num_of_same_kind == 6
\* The two instance columns.
table_cards == [i \in 0 .. 1 |-> i]

\* Value<Assigned<F>>: a known field element, or Value::unknown().
Known(v) == [known |-> TRUE, val |-> v]
Unknown == [known |-> FALSE, val |-> 0]

\* Errors the backend may answer a region write with.
BackendErrors == {"BoundsFailure", "Synthesis"}

VARIABLES
    circuit,    \* VanillaHoldemCircuit { cards, table_cards }
    writes,     \* region writes accepted by the backend, in call order
    enabled,    \* selector enablings: records [selector, region, offset]
    instance,   \* values of the two instance columns (public inputs)
    backend,    \* per synthesize call: which write the backend rejects
    results,    \* per synthesize call: the Result it returned
    verdict     \* outcome of the backend's gate check of the hand row

vars == <<circuit, writes, enabled, instance, backend, results, verdict>>

(* ------------------------- witness assignment ------------------------- *)

\* Faulty variant: the public cards chained before the private ones.
Hand_PublicFirst(c) == c.table_cards \o c.cards

\* let hand = cards.iter().chain(table_cards.iter()) ... : the private cards
\* first, then the public ones (a 1-based sequence; hand[i] is Hand(c)[i+1]).
Hand(c) == c.cards \o c.table_cards

\* What the backend answers to the writes of one region: it rejects write
\* number `at` (0-based) with error `err`, or (at = NumCards) rejects none.
Accept == [at |-> NumCards, err |-> "none"]
BackendAnswers == {Accept} \cup [at : CardIdx, err : BackendErrors]

\* Faulty variant: a loop that undoes its writes when one is rejected.
RECURSIVE AssignLoop_RollsBack(_, _, _, _, _)
AssignLoop_RollsBack(i, region, hand, answer, acc) ==
    IF i = NumCards
    THEN [writes |-> acc, result |-> "Ok"]
    ELSE IF answer.at = i
         THEN [writes |-> <<>>, result |-> answer.err]
         ELSE AssignLoop_RollsBack(i + 1, region, hand, answer,
                                   Append(acc, [region |-> region,
                                                column |-> cards[i],
                                                offset |-> 0,
                                                value  |-> hand[i + 1]]))

\* for i in 0..5 { region.assign_advice(|| "cards", self.config.cards[i], 0,
\*                                      || hand[i])?; }  Ok(())
\* `acc` are the writes the backend accepted so far; `?` returns the
\* backend's error at the first rejected write.
RECURSIVE AssignLoop(_, _, _, _, _)
AssignLoop(i, region, hand, answer, acc) ==
    IF i = NumCards
    THEN [writes |-> acc, result |-> "Ok"]
    ELSE IF answer.at = i
         THEN [writes |-> acc, result |-> answer.err]
         ELSE AssignLoop(i + 1, region, hand, answer,
                         Append(acc, [region |-> region,
                                      column |-> cards[i],
                                      offset |-> 0,
                                      value  |-> hand[i + 1]]))

\* assign_card: layouter.assign_region opens a region of its own and runs
\* the loop in it.
assign_card(c, region, answer) == AssignLoop(0, region, Hand(c), answer, <<>>)

\* VanillaHoldemCircuit::synthesize: construct the chip, assign_card(...)?,
\* Ok(()).  The result of assign_card is returned as it is.
Synthesize ==
    /\ Len(results) < MaxAttempts
    /\ \E answer \in BackendAnswers :
          LET r == assign_card(circuit, Len(results) + 1, answer)
          IN  /\ writes' = writes \o r.writes
              /\ results' = Append(results, r.result)
              /\ backend' = Append(backend, answer)
    /\ UNCHANGED <<circuit, enabled, instance, verdict>>

(* -------------------------------- gates ------------------------------- *)

\* The row the gates are evaluated on: offset 0 of the first region.
\* Every query of configure is at Rotation::cur().
CurRow == [region |-> Len(<<"hand check">>), offset |-> 0]

\* The accepted writes to one cell, oldest first.
Cell(region, column, offset) ==
    SelectSeq(writes, LAMBDA w : /\ w.region = region
                                 /\ w.column = column
                                 /\ w.offset = offset)

\* meta.query_advice(column, Rotation::cur()), evaluated on CurRow: the value
\* last written to the cell (0 for a cell that holds no known value).
QueryAdvice(column) ==
    LET c == Cell(CurRow.region, column, CurRow.offset)
    IN  IF c = <<>> \/ ~c[Len(c)].value.known THEN 0 ELSE c[Len(c)].value.val

\* meta.query_selector(q), evaluated on CurRow: 1 where enabled, else 0.
QuerySelector(q) ==
    IF [selector |-> q, region |-> CurRow.region, offset |-> CurRow.offset]
          \in enabled
    THEN 1 ELSE 0

\* Each gate is the list of the values of its constraint polynomials.
\* Faulty variant: the pairwise adjacency check card[i] - card[i-1] - 1.
StraightGate_Adjacent ==
    [i \in 1 .. 4 |->
        Mul(QuerySelector("q_straight"),
            Sub(Sub(QueryAdvice(cards[i]), QueryAdvice(cards[i - 1])), One))]

StraightGate ==
    [i \in 1 .. 4 |->
        Mul(QuerySelector("q_straight"), Sub(QueryAdvice(cards[i]), One))]

\* Faulty variant: the loop stops one pair short.
FlushGate_SkipsLast ==
    [i \in 0 .. 2 |->
        Mul(QuerySelector("q_flush"),
            Sub(QueryAdvice(cards[i]), QueryAdvice(cards[i + 1])))]

FlushGate ==
    [i \in 0 .. 3 |->
        Mul(QuerySelector("q_flush"),
            Sub(QueryAdvice(cards[i]), QueryAdvice(cards[i + 1])))]

\* Faulty variant: the constraint is not multiplied by its selector.
OnePairGate_Ungated == <<Sub(One, QueryAdvice(num_of_pair))>>

OnePairGate ==
    <<Mul(QuerySelector("q_one_pair"), Sub(One, QueryAdvice(num_of_pair)))>>

\* Faulty variant: the constant of the one-pair gate.
TwoPairGate_One ==
    <<Mul(QuerySelector("q_two_pair"), Sub(One, QueryAdvice(num_of_pair)))>>

TwoPairGate ==
    <<Mul(QuerySelector("q_two_pair"), Sub(Two, QueryAdvice(num_of_pair)))>>

ThreeOfAKindGate ==
    <<Mul(QuerySelector("q_three_of_a_kind"),
          Sub(Three, QueryAdvice(num_of_same_kind)))>>

FourOfAKindGate ==
    <<Mul(QuerySelector("q_four_of_a_kind"),
          Sub(Four, QueryAdvice(num_of_same_kind)))>>

\* Faulty variant: the pair count of a full house taken to be 2.
FullHouseGate_TwoPairs ==
    <<Mul(QuerySelector("q_three_of_a_kind"),
          Sub(Three, QueryAdvice(num_of_same_kind))),
      Mul(QuerySelector("q_one_pair"), Sub(Two, QueryAdvice(num_of_pair)))>>

FullHouseGate ==
    <<Mul(QuerySelector("q_three_of_a_kind"),
          Sub(Three, QueryAdvice(num_of_same_kind))),
      Mul(QuerySelector("q_one_pair"), Sub(One, QueryAdvice(num_of_pair)))>>

\* The gates in the order configure registers them, under their names.
GateNames ==
    <<"straight", "flush", "one pair", "two pair", "three of a kind",
      "four of a kind", "full house">>

Gate(name) ==
    CASE name = "straight"        -> StraightGate
      [] name = "flush"           -> FlushGate
      [] name = "one pair"        -> OnePairGate
      [] name = "two pair"        -> TwoPairGate
      [] name = "three of a kind" -> ThreeOfAKindGate
      [] name = "four of a kind"  -> FourOfAKindGate
      [] name = "full house"      -> FullHouseGate

\* A gate holds on the row when each of its polynomials evaluates to zero.
GateHolds(name) == LET g == Gate(name) IN \A i \in DOMAIN g : g[i] = 0

\* The backend's check of the row against every registered gate.
Verify ==
    /\ verdict = "none"
    /\ verdict' = IF \A k \in DOMAIN GateNames : GateHolds(GateNames[k])
                  THEN "satisfied" ELSE "unsatisfied"
    /\ UNCHANGED <<circuit, writes, enabled, instance, backend, results>>

(* --------------------------- specifications --------------------------- *)

\* Hands: every 5-tuple over 0..MaxCard, and two fixed examples.
ExampleStraight == [i \in CardIdx |-> 3 + i]
ExampleOnes == [i \in CardIdx |-> IF i = 0 THEN 7 ELSE 1]
Hands == [CardIdx -> 0 .. MaxCard] \cup {ExampleStraight, ExampleOnes}
Counts == 0 .. MaxCount

\* The circuit holding the known hand h, and the default circuit
\* (without_witnesses: every value unknown).
CircuitOf(h) ==
    [cards |-> <<Known(h[0]), Known(h[1])>>,
     table_cards |-> <<Known(h[2]), Known(h[3]), Known(h[4])>>]
Default ==
    [cards |-> <<Unknown, Unknown>>,
     table_cards |-> <<Unknown, Unknown, Unknown>>]

\* Public inputs: the board of the hand h (its first two public cards, one
\* per instance column), or any two values of 0..MaxCard.
Board(h) == [i \in DOMAIN table_cards |-> h[2 + i]]
PublicInputs(h) == {Board(h)} \cup [DOMAIN table_cards -> 0 .. MaxCard]

\* The selector sets that claim one category (full house: one pair and
\* three of a kind together), and the empty claim.
CategoryClaims ==
    {{}, {"q_one_pair", "q_three_of_a_kind"}} \cup {{q} : q \in Selectors}

\* The full row a caller builds around a successful synthesize of hand h:
\* num_of_pair = np, num_of_same_kind = nsk, the selectors sel enabled.
RowWrites(h, np, nsk) ==
    assign_card(CircuitOf(h), CurRow.region, Accept).writes
    \o <<[region |-> CurRow.region, column |-> num_of_pair,
          offset |-> CurRow.offset, value |-> Known(np)],
         [region |-> CurRow.region, column |-> num_of_same_kind,
          offset |-> CurRow.offset, value |-> Known(nsk)]>>
RowSelectors(sel) ==
    {[selector |-> q, region |-> CurRow.region, offset |-> CurRow.offset] :
        q \in sel}

\* SpecAssign: the schema is configured (nothing enabled, nothing written);
\* synthesize is called up to MaxAttempts times.
InitAssign ==
    /\ \E h \in Hands :
          /\ circuit \in {CircuitOf(h), Default}
          /\ instance \in {Board(h), [i \in DOMAIN table_cards |-> 0]}
    /\ writes = <<>>
    /\ enabled = {}
    /\ backend = <<>>
    /\ results = <<>>
    /\ verdict = "none"

NextAssign == Synthesize

SpecAssign == InitAssign /\ [][NextAssign]_vars

\* SpecGates: a full row.  synthesize has placed a known hand; the caller
\* has written num_of_pair and num_of_same_kind and enabled any set of
\* selectors on the row, and supplies the hand's board as public input; the
\* backend then checks the gates.
InitGates ==
    \E h \in Hands, np \in Counts, nsk \in Counts, sel \in SUBSET Selectors :
       /\ circuit = CircuitOf(h)
       /\ writes = RowWrites(h, np, nsk)
       /\ enabled = RowSelectors(sel)
       /\ instance = Board(h)
       /\ backend = <<Accept>>
       /\ results = <<"Ok">>
       /\ verdict = "none"

NextGates == Verify

SpecGates == InitGates /\ [][NextGates]_vars

\* SpecClaims: as SpecGates, with the caller claiming one category (the
\* selector or selectors of that category alone) or none.
InitClaims ==
    \E h \in Hands, np \in Counts, nsk \in Counts, sel \in CategoryClaims :
       /\ circuit = CircuitOf(h)
       /\ writes = RowWrites(h, np, nsk)
       /\ enabled = RowSelectors(sel)
       /\ instance = Board(h)
       /\ backend = <<Accept>>
       /\ results = <<"Ok">>
       /\ verdict = "none"

NextClaims == Verify

SpecClaims == InitClaims /\ [][NextClaims]_vars

\* SpecPublic: as SpecClaims, with the verifier supplying any public inputs.
InitPublic ==
    \E h \in Hands, np \in Counts, nsk \in Counts, sel \in CategoryClaims :
       /\ circuit = CircuitOf(h)
       /\ writes = RowWrites(h, np, nsk)
       /\ enabled = RowSelectors(sel)
       /\ instance \in PublicInputs(h)
       /\ backend = <<Accept>>
       /\ results = <<"Ok">>
       /\ verdict = "none"

NextPublic == Verify

SpecPublic == InitPublic /\ [][NextPublic]_vars

(* ------------------- vocabulary of the claims ------------------------- *)

\* The selectors enabled on the row, the values of its card columns (by
\* column index) and of its two auxiliary columns.
Active == {q \in Selectors : QuerySelector(q) = 1}
Card(i) == QueryAdvice(i)
NumOfPair == QueryAdvice(5)
NumOfSameKind == QueryAdvice(6)
Checked == verdict # "none"
Satisfied == verdict = "satisfied"

\* What the five cards truly are, with a card's value read as its rank (and,
\* for the flush, as its suit marker): adjacent ranks differ by 1.
Count(v) == Cardinality({i \in CardIdx : Card(i) = v})
PairRanks == {v \in Field : Count(v) = 2}
HasGroup(n) == \E v \in Field : Count(v) = n
TrulyStraight == \A i \in 1 .. 4 : Card(i) = (Card(i - 1) + 1) % P
TrulyFlush == \A i \in CardIdx : \A j \in CardIdx : Card(i) = Card(j)
TrulyOnePair == Cardinality(PairRanks) = 1 /\ ~HasGroup(3) /\ ~HasGroup(4)
TrulyTwoPair == Cardinality(PairRanks) = 2
TrulyThree == HasGroup(3) /\ PairRanks = {}
TrulyFour == HasGroup(4)
TrulyFullHouse == HasGroup(3) /\ Cardinality(PairRanks) = 1

(* ------------------------------- claims ------------------------------- *)

\* C1 (as claimed): for every hand, every pair of auxiliary values and every
\* claimed category, the row satisfies the gates if and only if the five
\* cards truly form that category.
C1_GatesDecideCategory ==
    Checked =>
       /\ Active = {"q_straight"} => (Satisfied <=> TrulyStraight)
       /\ Active = {"q_flush"} => (Satisfied <=> TrulyFlush)
       /\ Active = {"q_one_pair"} => (Satisfied <=> TrulyOnePair)
       /\ Active = {"q_two_pair"} => (Satisfied <=> TrulyTwoPair)
       /\ Active = {"q_three_of_a_kind"} => (Satisfied <=> TrulyThree)
       /\ Active = {"q_four_of_a_kind"} => (Satisfied <=> TrulyFour)
       /\ Active = {"q_one_pair", "q_three_of_a_kind"}
             => (Satisfied <=> TrulyFullHouse)

\* C2: with only the flush selector active, the row is satisfied exactly
\* when all five card columns hold the same value.
C2_FlushIffAllEqual ==
    (Checked /\ Active = {"q_flush"})
       => (Satisfied <=> \A i \in CardIdx : \A j \in CardIdx : Card(i) = Card(j))

\* C2 witness: a flush-only row whose last card alone differs was rejected.
C2_Witness ==
    /\ Active = {"q_flush"}
    /\ verdict = "unsatisfied"
    /\ \A i \in 0 .. 3 : Card(i) = Card(0)
    /\ Card(4) # Card(0)

\* C3: with only the straight selector active, the row is satisfied exactly
\* when card columns 1..4 each hold 1, whatever column 0 holds; the hand
\* 3,4,5,6,7 is rejected.
C3_StraightIffOnes ==
    (Checked /\ Active = {"q_straight"})
       => /\ Satisfied <=> \A i \in 1 .. 4 : Card(i) = 1
          /\ (\A i \in CardIdx : Card(i) = 3 + i) => ~Satisfied

\* C3 witness: the hand 3,4,5,6,7 was rejected under the straight selector.
C3_Witness ==
    /\ Active = {"q_straight"}
    /\ verdict = "unsatisfied"
    /\ \A i \in CardIdx : Card(i) = 3 + i

\* C3 second witness state: a first card other than 1 was accepted.
C3_WitnessFirstFree ==
    /\ Active = {"q_straight"}
    /\ Satisfied
    /\ Card(0) = 7

\* C4: each count selector taken alone is satisfied exactly when its
\* auxiliary column holds its constant, whatever the cards and the other
\* auxiliary value are.
C4_CountGates ==
    Checked =>
       /\ Active = {"q_one_pair"} => (Satisfied <=> NumOfPair = 1)
       /\ Active = {"q_two_pair"} => (Satisfied <=> NumOfPair = 2)
       /\ Active = {"q_three_of_a_kind"} => (Satisfied <=> NumOfSameKind = 3)
       /\ Active = {"q_four_of_a_kind"} => (Satisfied <=> NumOfSameKind = 4)

\* C4 witness: num_of_pair = 2 was rejected under the one-pair selector.
C4_Witness ==
    /\ Active = {"q_one_pair"}
    /\ verdict = "unsatisfied"
    /\ NumOfPair = 2

\* Whether the row satisfies every gate but the "full house" gate.
WithoutFullHouse ==
    \A k \in DOMAIN GateNames :
       GateNames[k] # "full house" => GateHolds(GateNames[k])

\* C5: with exactly the one-pair and three-of-a-kind selectors active the
\* row is satisfied iff num_of_same_kind = 3 and num_of_pair = 1; and for
\* every selector combination the verdict is the one the other six gates
\* give without the "full house" gate.
C5_FullHouse ==
    Checked =>
       /\ Active = {"q_one_pair", "q_three_of_a_kind"}
             => (Satisfied <=> (NumOfSameKind = 3 /\ NumOfPair = 1))
       /\ Satisfied <=> WithoutFullHouse

\* C5 witness: a full-house row was accepted.
C5_Witness ==
    /\ Active = {"q_one_pair", "q_three_of_a_kind"}
    /\ Satisfied
    /\ NumOfSameKind = 3
    /\ NumOfPair = 1

\* C6: with no selector active every polynomial of every gate evaluates to
\* zero and the row is satisfied, whatever the cards and auxiliary values.
C6_NoSelectorVacuous ==
    Active = {} =>
       /\ \A k \in DOMAIN GateNames : GateHolds(GateNames[k])
       /\ Checked => Satisfied

\* C6 witness: a row with no selector, distinct cards and counts matching no
\* category was accepted.
C6_Witness ==
    /\ Active = {}
    /\ Satisfied
    /\ Card(0) # Card(1)
    /\ NumOfPair = 0
    /\ NumOfSameKind = 0

\* Every public card differs from every public-input value.
BoardMismatch ==
    \A i \in 2 .. 4 : \A j \in DOMAIN table_cards : Card(i) # instance[j]

\* C8 (as claimed): a row whose public cards differ from the values of the
\* public columns is rejected.
C8_PublicInputsBind == (Checked /\ BoardMismatch) => ~Satisfied

\* The accepted writes of the j-th synthesize call (its region), in order,
\* and the value the i-th card column is to receive.
RegionWrites(j) == SelectSeq(writes, LAMBDA w : w.region = j)
Calls == 1 .. Len(results)
Expected(i) ==
    IF i < 2 THEN circuit.cards[i + 1] ELSE circuit.table_cards[i - 1]

\* A successful call wrote exactly 5 cells of its own region, at offset 0, in
\* the column order 0,1,2,3,4 with values private[0], private[1], public[0],
\* public[1], public[2]; and no cell is ever written twice.
FiveCellsInOrder ==
    /\ \A j \in Calls :
          results[j] = "Ok" =>
             /\ Len(RegionWrites(j)) = 5
             /\ \A i \in 0 .. 4 :
                   RegionWrites(j)[i + 1] =
                      [region |-> j, column |-> i, offset |-> 0,
                       value |-> Expected(i)]
    /\ \A a \in DOMAIN writes : \A b \in DOMAIN writes :
          (a # b) =>
             <<writes[a].region, writes[a].column, writes[a].offset>>
                # <<writes[b].region, writes[b].column, writes[b].offset>>

C7_WitnessUnknown ==
    /\ circuit = Default
    /\ Len(results) >= 1
    /\ results[1] = "Ok"
    /\ Len(RegionWrites(1)) = 5

\* C9: synthesize leaves every selector disabled, writes only card columns
\* at offset 0 (never num_of_pair or num_of_same_kind), and never changes the
\* selectors or the public columns.
C9_Frame ==
    /\ [](/\ enabled = {}
          /\ \A k \in DOMAIN writes :
                /\ writes[k].column \in 0 .. 4
                /\ writes[k].column \notin {5, 6}
                /\ writes[k].offset = 0)
    /\ [][enabled' = enabled /\ instance' = instance]_vars

\* C9 witness: a complete synthesize, the auxiliary columns unwritten.
C9_Witness ==
    /\ Len(results) >= 1
    /\ results[1] = "Ok"
    /\ enabled = {}
    /\ Len(RegionWrites(1)) = 5
    /\ \A k \in DOMAIN writes : writes[k].column < 5

\* What every call does when the backend rejects write number at (0-based):
\* it returns that error and has issued no write after the rejected one.
StopsAtRejectedWrite ==
    \A j \in Calls :
       /\ backend[j] # Accept =>
             /\ results[j] = backend[j].err
             /\ Len(RegionWrites(j)) <= backend[j].at
       /\ backend[j] = Accept =>
             /\ results[j] = "Ok"
             /\ Len(RegionWrites(j)) = 5

====
